---- MODULE Spec2Model ----
(***************************************************************************)
(* Model of src/05-dataset_manipulation.ipynb: the class MyDataset, which  *)
(* wraps two native python lists behind __len__ / __getitem__, and the     *)
(* three cells that consume it: the Counter loop, list(dataset) and        *)
(* the list of the zip of the unpacked dataset.                            *)
(*                                                                         *)
(* Python lists are objects: a variable or an attribute holds a reference  *)
(* to one.  heap maps each reference to the list's current contents; x, y  *)
(* (the notebook's globals) and dataset.x, dataset.y hold references.      *)
(* Sequences are 1-based here and 0-based in python: position i of a       *)
(* python list s is s[i + 1].                                              *)
(***************************************************************************)
EXTENDS Integers, Sequences, FiniteSets, TLC

\* ---------------------------------------------------------------- bounds
MaxLen == 2          \* longest list the caller builds
MaxTraversals == 2   \* traversals started in one run
MaxCallerOps == 1    \* changes the caller makes to its lists in one run

Features == {1, 2}   \* values of the elements of x
Labels == {0, 1}     \* values of the elements of y

RefX == 1            \* the list object bound to the global x
RefY == 2            \* the list object bound to the global y

SeqsUpTo(S, n) == UNION {[1..k -> S] : k \in 0..n}

Indices == (0 - (MaxLen + 1))..(MaxLen + 1)

VARIABLES
    heap,           \* reference -> contents of the list object
    x, y,           \* the notebook's globals: references to the two lists
    dataset,        \* the MyDataset instance: its attributes x and y
    created_f,      \* history: contents of x when MyDataset(x, y) ran
    created_l,      \* history: contents of y when MyDataset(x, y) ran
    consumer,       \* which cell is traversing: "none", "for", "list", "zip"
    it,             \* the sequence iterator python made for that traversal
    out,            \* the pairs the iterator has yielded so far
    requested,      \* history: the positions that iterator has asked for
    label_counter,  \* the Counter of the loop cell
    ntrav,          \* history: traversals started so far
    ncaller,        \* history: changes the caller has made to x and y
    prev,           \* history: the traversal before this one, as it ended
    ret,            \* outcome of the last completed call
    passes,         \* the passes that traverse the dataset side by side
    workers,        \* the workers of a counting fold split in two ranges
    folded          \* the positions a fold in free order has taken, in order

\* what only the side-by-side passes and the split folds change
parvars == <<passes, workers, folded>>

vars == <<heap, x, y, dataset, created_f, created_l, consumer, it, out,
          requested, label_counter, ntrav, ncaller, prev, ret, parvars>>

\* ------------------------------------------------------- python builtins
Ok(v) == [ok |-> TRUE, val |-> v]
IndexError == [ok |-> FALSE, val |-> <<>>]

\* s[i] on a python list: a negative i counts from the end
PyIndex(s, i) ==
    IF 0 <= i /\ i < Len(s) THEN Ok(s[i + 1])
    ELSE IF i < 0 /\ 0 - Len(s) <= i THEN Ok(s[Len(s) + i + 1])
    ELSE IndexError

\* Counter(): no keys
EmptyCounter == <<>>

\* a slip in the loop body: an unseen label enters the table with count 0
CounterIncrFromZero(c, k) ==
    IF k \in DOMAIN c THEN [c EXCEPT ![k] = @ + 1]
    ELSE (k :> 0) @@ c

\* a slip in the loop body: an unseen label starts the table over
CounterIncrRestart(c, k) ==
    IF k \in DOMAIN c THEN [c EXCEPT ![k] = @ + 1]
    ELSE (k :> 1)

\* c[k] += 1 on a Counter: a missing key reads as 0
CounterIncr(c, k) ==
    IF k \in DOMAIN c THEN [c EXCEPT ![k] = @ + 1]
    ELSE (k :> 1) @@ c

Min(S) == CHOOSE m \in S : \A n \in S : m <= n

\* zip applied to the unpacked args, as a list: one tuple per position
\* that every argument has; no argument at all gives no tuple
Zip(args) ==
    IF Len(args) = 0 THEN <<>>
    ELSE LET n == Min({Len(args[k]) : k \in 1..Len(args)})
         IN  [j \in 1..n |-> [k \in 1..Len(args) |-> args[k][j]]]

\* ------------------------------------------------------------- MyDataset
\* before the cell that builds it runs, the name dataset is unbound
NoDataset == [exists |-> FALSE, x |-> 0, y |-> 0]

\* MyDataset.__init__: the attributes are bound to the caller's objects
NewDataset(ax, ay) == [exists |-> TRUE, x |-> ax, y |-> ay]

\* a slip in __len__: one more than the labels held
DatasetLenOffByOne(d) == Len(heap[d.y]) + 1

\* MyDataset.__len__
DatasetLen(d) == Len(heap[d.y])

\* a slip in __getitem__: the pair built as (self.y[i], self.x[i])
GetItemSwapped(d, i) ==
    LET a == PyIndex(heap[d.x], i)
        b == PyIndex(heap[d.y], i)
    IN  IF ~a.ok \/ ~b.ok THEN IndexError ELSE Ok(<<b.val, a.val>>)

\* MyDataset.__getitem__: self.x[i] is evaluated first, then self.y[i]
GetItem(d, i) ==
    LET a == PyIndex(heap[d.x], i)
        b == PyIndex(heap[d.y], i)
    IN  IF ~a.ok \/ ~b.ok THEN IndexError ELSE Ok(<<a.val, b.val>>)

\* ------------------------------------------------------------------ Init
NoIter == [active |-> FALSE, index |-> 0, done |-> FALSE]
NoPrev == [active |-> FALSE, index |-> 0, done |-> FALSE, out |-> <<>>,
           kind |-> "none", counter |-> <<>>]
NoRet == [op |-> "none", arg |-> 0, kind |-> "ok", val |-> <<>>]

Passes == {1, 2}
Workers == {1, 2}
NoPass == [kind |-> "none", active |-> FALSE, index |-> 0, done |-> FALSE,
           out |-> <<>>, counter |-> <<>>, mixed |-> FALSE]
NoWorker == [started |-> FALSE, next |-> 0, hi |-> 0]

Init ==
    /\ x = RefX
    /\ y = RefY
    /\ \E f \in SeqsUpTo(Features, MaxLen), l \in SeqsUpTo(Labels, MaxLen) :
          heap = (RefX :> f) @@ (RefY :> l)
    /\ dataset = NoDataset
    /\ created_f = <<>>
    /\ created_l = <<>>
    /\ consumer = "none"
    /\ it = NoIter
    /\ out = <<>>
    /\ requested = <<>>
    /\ label_counter = EmptyCounter
    /\ ntrav = 0
    /\ ncaller = 0
    /\ prev = NoPrev
    /\ ret = NoRet
    /\ passes = [p \in Passes |-> NoPass]
    /\ workers = [w \in Workers |-> NoWorker]
    /\ folded = <<>>

\* --------------------------------------------------------------- actions
\* a slip in __init__: the features are moved out of the caller's list
\* (x.clear() once they are taken)
CreateDrains ==
    /\ ~dataset.exists
    /\ dataset' = NewDataset(x, y)
    /\ created_f' = heap[x]
    /\ created_l' = heap[y]
    /\ heap' = [heap EXCEPT ![x] = <<>>]
    /\ ret' = [op |-> "create", arg |-> 0, kind |-> "ok", val |-> <<>>]
    /\ UNCHANGED <<parvars, requested, ncaller, x, y, consumer, it, out,
                   label_counter, ntrav, prev>>

\* dataset = MyDataset(x, y)
Create ==
    /\ ~dataset.exists
    /\ dataset' = NewDataset(x, y)
    /\ created_f' = heap[x]
    /\ created_l' = heap[y]
    /\ ret' = [op |-> "create", arg |-> 0, kind |-> "ok", val |-> <<>>]
    /\ UNCHANGED <<parvars, requested, ncaller, heap, x, y, consumer, it, out,
                   label_counter, ntrav, prev>>

\* len(dataset)
CallLen ==
    /\ dataset.exists
    /\ ret' = [op |-> "len", arg |-> 0, kind |-> "ok",
               val |-> DatasetLen(dataset)]
    /\ UNCHANGED <<parvars, requested, ncaller, heap, x, y, dataset,
                   created_f, created_l, consumer, it, out, label_counter,
                   ntrav, prev>>

\* a slip in __getitem__: the feature is taken off the list (self.x.pop())
\* when the lookup succeeds
CallGetItemPop(i) ==
    /\ dataset.exists
    /\ LET r == GetItem(dataset, i)
       IN  /\ ret' = [op |-> "getitem", arg |-> i,
                      kind |-> IF r.ok THEN "ok" ELSE "IndexError",
                      val |-> r.val]
           /\ heap' = IF r.ok
                      THEN [heap EXCEPT ![dataset.x] =
                               SubSeq(@, 1, Len(@) - 1)]
                      ELSE heap
    /\ UNCHANGED <<parvars, requested, ncaller, x, y, dataset, created_f,
                   created_l, consumer, it, out, label_counter, ntrav, prev>>

\* dataset[i]
CallGetItem(i) ==
    /\ dataset.exists
    /\ LET r == GetItem(dataset, i)
       IN  ret' = [op |-> "getitem", arg |-> i,
                   kind |-> IF r.ok THEN "ok" ELSE "IndexError",
                   val |-> r.val]
    /\ UNCHANGED <<parvars, requested, ncaller, heap, x, y, dataset,
                   created_f, created_l, consumer, it, out, label_counter,
                   ntrav, prev>>

\* a slip: one cursor kept across traversals, so a new traversal goes on
\* from where the one before stopped
NewIterResumed == [active |-> TRUE, index |-> it.index, done |-> FALSE]

\* iter(dataset): MyDataset defines no __iter__, so python iterates it by
\* the sequence protocol, a fresh iterator that starts at index 0
NewIter == [active |-> TRUE, index |-> 0, done |-> FALSE]

\* a traversal begins: whatever iterator was in use before is dropped
BeginTraversal(kind) ==
    /\ dataset.exists
    /\ ntrav < MaxTraversals
    /\ consumer' = kind
    /\ it' = NewIter
    /\ out' = <<>>
    /\ requested' = <<>>
    /\ prev' = [active |-> it.active, index |-> it.index, done |-> it.done,
                out |-> out, kind |-> consumer, counter |-> label_counter]
    /\ ntrav' = ntrav + 1

\* the iterator's __next__: dataset[index]; an IndexError ends the traversal
NextItem == GetItem(dataset, it.index)

Running(kind) == consumer = kind /\ it.active /\ ~it.done

\* a slip: an iterator that reads one position ahead of the consumer
RequestsAhead == requested \o <<it.index, it.index + 1>>

\* the positions the iterator has asked dataset for once __next__ has run:
\* one more, its own index
Requests == Append(requested, it.index)

\* a slip in the loop cell: the Counter of the pass before is reused
StartLoopNoReset ==
    /\ BeginTraversal("for")
    /\ label_counter' = label_counter
    /\ UNCHANGED <<parvars, ncaller, heap, x, y, dataset, created_f,
                   created_l, ret>>

\* label_counter = Counter(); for data, label in dataset: (the loop starts)
StartLoop ==
    /\ BeginTraversal("for")
    /\ label_counter' = EmptyCounter
    /\ UNCHANGED <<parvars, ncaller, heap, x, y, dataset, created_f,
                   created_l, ret>>

\* a slip in the loop body: the table is keyed by the feature,
\* label_counter[data] += 1
LoopStepCountsData ==
    /\ Running("for")
    /\ LET r == NextItem
       IN  IF r.ok
           THEN /\ it' = [it EXCEPT !.index = @ + 1]
                /\ out' = Append(out, r.val)
                /\ label_counter' = CounterIncr(label_counter, r.val[1])
                /\ ret' = ret
           ELSE /\ it' = [it EXCEPT !.done = TRUE]
                /\ ret' = [op |-> "count", arg |-> 0, kind |-> "ok",
                           val |-> label_counter]
                /\ UNCHANGED <<out, label_counter>>
    /\ requested' = Requests
    /\ UNCHANGED <<parvars, ncaller, heap, x, y, dataset, created_f,
                   created_l, consumer, ntrav, prev>>

\* one round of the loop: the next pair, label_counter[label] += 1; when
\* the iterator ends, print(label_counter)
LoopStep ==
    /\ Running("for")
    /\ LET r == NextItem
       IN  IF r.ok
           THEN /\ it' = [it EXCEPT !.index = @ + 1]
                /\ out' = Append(out, r.val)
                /\ label_counter' = CounterIncr(label_counter, r.val[2])
                /\ ret' = ret
           ELSE /\ it' = [it EXCEPT !.done = TRUE]
                /\ ret' = [op |-> "count", arg |-> 0, kind |-> "ok",
                           val |-> label_counter]
                /\ UNCHANGED <<out, label_counter>>
    /\ requested' = Requests
    /\ UNCHANGED <<parvars, ncaller, heap, x, y, dataset, created_f,
                   created_l, consumer, ntrav, prev>>

\* list(dataset) (the call starts)
StartList ==
    /\ BeginTraversal("list")
    /\ UNCHANGED <<parvars, ncaller, heap, x, y, dataset, created_f,
                   created_l, label_counter, ret>>

\* list(dataset) takes the next pair; when the iterator ends it returns
ListStep ==
    /\ Running("list")
    /\ LET r == NextItem
       IN  IF r.ok
           THEN /\ it' = [it EXCEPT !.index = @ + 1]
                /\ out' = Append(out, r.val)
                /\ ret' = ret
           ELSE /\ it' = [it EXCEPT !.done = TRUE]
                /\ ret' = [op |-> "list", arg |-> 0, kind |-> "ok",
                           val |-> out]
                /\ out' = out
    /\ requested' = Requests
    /\ UNCHANGED <<parvars, ncaller, heap, x, y, dataset, created_f,
                   created_l, consumer, label_counter, ntrav, prev>>

\* the zip cell (the unpacking of dataset into zip's arguments starts)
StartZip ==
    /\ BeginTraversal("zip")
    /\ UNCHANGED <<parvars, ncaller, heap, x, y, dataset, created_f,
                   created_l, label_counter, ret>>

\* the unpacking takes the next pair; when the iterator ends, zip runs on
\* the pairs and list() collects its tuples
ZipStep ==
    /\ Running("zip")
    /\ LET r == NextItem
       IN  IF r.ok
           THEN /\ it' = [it EXCEPT !.index = @ + 1]
                /\ out' = Append(out, r.val)
                /\ ret' = ret
           ELSE /\ it' = [it EXCEPT !.done = TRUE]
                /\ ret' = [op |-> "zip", arg |-> 0, kind |-> "ok",
                           val |-> Zip(out)]
                /\ out' = out
    /\ requested' = Requests
    /\ UNCHANGED <<parvars, ncaller, heap, x, y, dataset, created_f,
                   created_l, consumer, label_counter, ntrav, prev>>

Next ==
    \/ Create
    \/ CallLen
    \/ \E i \in Indices : CallGetItem(i)
    \/ StartLoop
    \/ LoopStep
    \/ StartList
    \/ ListStep
    \/ StartZip
    \/ ZipStep

Spec == Init /\ [][Next]_vars

\* ------------------------------------------- the caller's own list code
\* The notebook never changes x or y after building them, but they are
\* ordinary python lists that the caller still holds: these are the
\* changes a caller can make to them (append, pop, item assignment) once
\* the dataset is built.
CallerAppend(r, v) ==
    /\ dataset.exists
    /\ ncaller < MaxCallerOps
    /\ Len(heap[r]) < MaxLen
    /\ ncaller' = ncaller + 1
    /\ heap' = [heap EXCEPT ![r] = Append(@, v)]
    /\ UNCHANGED <<parvars, requested, x, y, dataset, created_f, created_l,
                   consumer, it, out, label_counter, ntrav, prev, ret>>

CallerPop(r) ==
    /\ dataset.exists
    /\ ncaller < MaxCallerOps
    /\ Len(heap[r]) > 0
    /\ ncaller' = ncaller + 1
    /\ heap' = [heap EXCEPT ![r] = SubSeq(@, 1, Len(@) - 1)]
    /\ UNCHANGED <<parvars, requested, x, y, dataset, created_f, created_l,
                   consumer, it, out, label_counter, ntrav, prev, ret>>

CallerSetItem(r, k, v) ==
    /\ dataset.exists
    /\ ncaller < MaxCallerOps
    /\ k \in 1..Len(heap[r])
    /\ ncaller' = ncaller + 1
    /\ heap[r][k] # v
    /\ heap' = [heap EXCEPT ![r][k] = v]
    /\ UNCHANGED <<parvars, requested, x, y, dataset, created_f, created_l,
                   consumer, it, out, label_counter, ntrav, prev, ret>>

CallerNext ==
    \/ \E v \in Features : CallerAppend(x, v)
    \/ \E v \in Labels : CallerAppend(y, v)
    \/ CallerPop(x)
    \/ CallerPop(y)
    \/ \E k \in 1..MaxLen, v \in Features : CallerSetItem(x, k, v)
    \/ \E k \in 1..MaxLen, v \in Labels : CallerSetItem(y, k, v)

NextWithCaller == Next \/ CallerNext

SpecCaller == Init /\ [][NextWithCaller]_vars

\* ------------------------------------------------ what one pass yields
\* the pairs one traversal yields from position i on: dataset[i],
\* dataset[i + 1], ... up to the first IndexError
RECURSIVE PairsFrom(_)
PairsFrom(i) ==
    LET r == GetItem(dataset, i)
    IN  IF r.ok THEN <<r.val>> \o PairsFrom(i + 1) ELSE <<>>

\* list(dataset), run on its own
TraversalPairs == PairsFrom(0)

\* the table of the loop cell after the pairs ps, taken in their order
RECURSIVE CountOf(_)
CountOf(ps) ==
    IF Len(ps) = 0 THEN EmptyCounter
    ELSE CounterIncr(CountOf(SubSeq(ps, 1, Len(ps) - 1)), ps[Len(ps)][2])

\* what the cell of kind k gives when it runs on its own
AloneResult(k) ==
    IF k = "for" THEN CountOf(TraversalPairs)
    ELSE IF k = "zip" THEN Zip(TraversalPairs)
    ELSE TraversalPairs

\* ------------------------------------------------- passes side by side
\* Two cells traverse the one dataset at the same time (two threads): each
\* has its own iterator and its own list or Counter, and they share only
\* the dataset.  One step is one round of a pass.
PassStart(p, kind) ==
    /\ dataset.exists
    /\ ~passes[p].active
    /\ passes' = [passes EXCEPT ![p] =
                     [kind |-> kind, active |-> TRUE, index |-> 0,
                      done |-> FALSE, out |-> <<>>,
                      counter |-> EmptyCounter, mixed |-> FALSE]]
    /\ UNCHANGED <<requested, heap, x, y, dataset, created_f, created_l,
                   consumer, it, out, label_counter, ntrav, ncaller, prev,
                   ret, workers, folded>>

\* a slip: the cursor lives in the dataset, one for all the passes
PassItemSharedCursor(p) ==
    GetItem(dataset, passes[1].index + passes[2].index)

\* the __next__ of pass p's own iterator
PassItem(p) == GetItem(dataset, passes[p].index)

\* some other pass is in the middle of its traversal
OtherUnderWay(p) ==
    \E q \in Passes \ {p} :
        passes[q].active /\ ~passes[q].done /\ passes[q].index > 0

PassStep(p) ==
    /\ passes[p].active
    /\ ~passes[p].done
    /\ LET r == PassItem(p)
           me == passes[p]
       IN  passes' = [passes EXCEPT ![p] =
              IF r.ok
              THEN [me EXCEPT !.index = @ + 1,
                              !.out = Append(@, r.val),
                              !.counter = IF me.kind = "for"
                                          THEN CounterIncr(@, r.val[2])
                                          ELSE @,
                              !.mixed = @ \/ OtherUnderWay(p)]
              ELSE [me EXCEPT !.done = TRUE]]
    /\ UNCHANGED <<requested, heap, x, y, dataset, created_f, created_l,
                   consumer, it, out, label_counter, ntrav, ncaller, prev,
                   ret, workers, folded>>

\* what a finished pass hands back
PassResult(p) ==
    IF passes[p].kind = "for" THEN passes[p].counter
    ELSE IF passes[p].kind = "zip" THEN Zip(passes[p].out)
    ELSE passes[p].out

NextPasses ==
    \/ Create
    \/ \E p \in Passes, kind \in {"for", "list", "zip"} : PassStart(p, kind)
    \/ \E p \in Passes : PassStep(p)

SpecPasses == Init /\ [][NextPasses]_vars

\* ------------------------------------------ the counting fold, split
\* The positions 0..len(dataset)-1 are split at k into two ranges, one per
\* worker; each worker goes through its range in order and adds to the one
\* shared Counter, an increment being one atomic step.  A worker stops at
\* the end of its range or at the first IndexError.
ParStart(k) ==
    /\ dataset.exists
    /\ k <= DatasetLen(dataset)
    /\ \A w \in Workers : ~workers[w].started
    /\ workers' = [w \in Workers |->
                     IF w = 1
                     THEN [started |-> TRUE, next |-> 0, hi |-> k]
                     ELSE [started |-> TRUE, next |-> k,
                           hi |-> DatasetLen(dataset)]]
    /\ label_counter' = EmptyCounter
    /\ UNCHANGED <<requested, heap, x, y, dataset, created_f, created_l,
                   consumer, it, out, ntrav, ncaller, prev, ret, passes,
                   folded>>

WorkerStep(w) ==
    /\ workers[w].started
    /\ workers[w].next < workers[w].hi
    /\ LET r == GetItem(dataset, workers[w].next)
       IN  IF r.ok
           THEN /\ label_counter' = CounterIncr(label_counter, r.val[2])
                /\ workers' = [workers EXCEPT ![w].next = @ + 1]
           ELSE /\ label_counter' = label_counter
                /\ workers' = [workers EXCEPT ![w].next = workers[w].hi]
    /\ UNCHANGED <<requested, heap, x, y, dataset, created_f, created_l,
                   consumer, it, out, ntrav, ncaller, prev, ret, passes,
                   folded>>

NextParallel ==
    \/ Create
    \/ \E k \in 0..MaxLen : ParStart(k)
    \/ \E w \in Workers : WorkerStep(w)

SpecParallel == Init /\ [][NextParallel]_vars

\* --------------------------------------- the counting fold, any order
\* The pairs of the dataset are folded into the Counter one by one in an
\* order of the fold's choosing, each position once.
FoldAny(i) ==
    /\ dataset.exists
    /\ i < Len(TraversalPairs)
    /\ \A j \in 1..Len(folded) : folded[j] # i
    /\ label_counter' = CounterIncr(label_counter, TraversalPairs[i + 1][2])
    /\ folded' = Append(folded, i)
    /\ UNCHANGED <<requested, heap, x, y, dataset, created_f, created_l,
                   consumer, it, out, ntrav, ncaller, prev, ret, passes,
                   workers>>

NextAnyOrder ==
    \/ Create
    \/ \E i \in 0..(MaxLen - 1) : FoldAny(i)

SpecAnyOrder == Init /\ [][NextAnyOrder]_vars

\* ---------------------------------------------------------------- claims
\* size() of the adapter, as the claims name it
N == DatasetLen(dataset)

\* the adapter was built from two sequences of one length
EqualAtCreate == dataset.exists /\ Len(created_f) = Len(created_l)

\* s is exactly [get(0), ..., get(N-1)]
IsAllPairs(s) ==
    /\ Len(s) = N
    /\ \A i \in 0..(N - 1) :
          /\ GetItem(dataset, i).ok
          /\ s[i + 1] = GetItem(dataset, i).val

\* C1: for an adapter created from two equal-length sequences f and l,
\* size() is their common length, and get(i) is the pair (f[i], l[i]) for
\* every i with 0 <= i < size(): as the operations compute it, and as the
\* last len(dataset) or dataset[i] call returned it.
C1_SizeAndGet ==
    EqualAtCreate =>
        /\ N = Len(created_f)
        /\ \A i \in 0..(Len(created_f) - 1) :
              GetItem(dataset, i) = Ok(<<created_f[i + 1], created_l[i + 1]>>)
        /\ ret.op = "len" => ret.val = Len(created_f)
        /\ (ret.op = "getitem" /\ 0 <= ret.arg /\ ret.arg < Len(created_f)) =>
              /\ ret.kind = "ok"
              /\ ret.val = <<created_f[ret.arg + 1], created_l[ret.arg + 1]>>

\* C1's case: dataset[1] has returned on an adapter of two or more pairs
C1_Witness ==
    /\ EqualAtCreate
    /\ Len(created_f) >= 2
    /\ ret.op = "getitem"
    /\ ret.arg = 1
    /\ ret.kind = "ok"

\* C2: create fails with LengthMismatchError when the two lengths differ,
\* and no adapter exists afterwards; it succeeds only for equal lengths.
C2_CreateRejectsMismatch ==
    /\ dataset.exists => Len(created_f) = Len(created_l)
    /\ (ret.op = "create" /\ Len(created_f) # Len(created_l)) =>
          ret.kind = "LengthMismatchError"

\* C3: get(i) fails with IndexOutOfRangeError for every i outside [0, N),
\* negative ones included (stated for adapters built from equal lengths,
\* so that only the index decides).
C3_GetRejectsOutside ==
    (EqualAtCreate /\ ret.op = "getitem" /\ (ret.arg < 0 \/ ret.arg >= N)) =>
        ret.kind = "IndexError"

\* C4: in every reachable state the adapter's features and labels have the
\* same length.
C4_EqualLengths ==
    dataset.exists => Len(heap[dataset.x]) = Len(heap[dataset.y])

\* C5: the adapter owns its sequences: whatever the caller does to the
\* lists it passed in, size() and get(i) keep giving what the sequences
\* held when the adapter was created (stated for adapters built from
\* equal lengths).
C5_Ownership ==
    EqualAtCreate =>
        /\ N = Len(created_l)
        /\ \A i \in 0..(Len(created_f) - 1) :
              i < Len(created_l) =>
                 GetItem(dataset, i) =
                    Ok(<<created_f[i + 1], created_l[i + 1]>>)

\* C6: the list that list(dataset) returns, and the pairs a finished
\* traversal has yielded, are exactly [get(0), ..., get(N-1)].
C6_PairSequence ==
    /\ ret.op = "list" => IsAllPairs(ret.val)
    /\ (consumer = "list" /\ it.done) => IsAllPairs(out)

\* C7: the table of the counting loop maps each label value to the number
\* of positions 0..N-1 of labels holding it, and its keys are the values
\* that occur.
C7_CountByLabel ==
    ret.op = "count" =>
        LET ls == heap[dataset.y]
        IN  /\ DOMAIN ret.val = {ls[i] : i \in 1..N}
            /\ \A v \in DOMAIN ret.val :
                  ret.val[v] = Cardinality({i \in 1..N : ls[i] = v})

\* C8: round trip: for equal-length f and l, the empty ones included, the
\* zip cell gives back the two sequences (f, l).
C8_RoundTrip ==
    (EqualAtCreate /\ ret.op = "zip") => ret.val = <<created_f, created_l>>

\* C9: the zip cell's result is the unzip of the pair sequence: two
\* sequences of length N, the i-th feature and the i-th label being the
\* two components of the i-th pair (stated for adapters built from equal
\* lengths, the empty one included).
C9_Unzip ==
    (EqualAtCreate /\ ret.op = "zip") =>
        /\ Len(ret.val) = 2
        /\ Len(ret.val[1]) = N
        /\ Len(ret.val[2]) = N
        /\ \A i \in 1..N : <<ret.val[1][i], ret.val[2][i]>> = out[i]

\* C10: a traversal begun after an earlier one, finished or abandoned, is
\* at position 0 before it yields anything and yields all N pairs, and the
\* adapter's sequences are those it was created with.
C10_Restartable ==
    /\ it.active => it.index = Len(out)
    /\ (ntrav >= 2 /\ it.done) => IsAllPairs(out)
    /\ dataset.exists =>
          (heap[dataset.x] = created_f /\ heap[dataset.y] = created_l)

\* the cells that traverse the dataset, by the op their result is kept as
ConsumerOps == {"count", "list", "zip"}

\* C11: two traversals of the same adapter yield the same pairs: two
\* finished ones are of one length and equal element by element, and any
\* two agree on every position both have reached.
C11_IterateTwice ==
    /\ (prev.done /\ it.done) =>
          /\ Len(out) = Len(prev.out)
          /\ \A i \in 1..Len(out) : out[i] = prev.out[i]
    /\ (prev.active /\ it.active) =>
          \A i \in 1..Len(out) : i <= Len(prev.out) => out[i] = prev.out[i]

\* C11's case: two finished traversals of two pairs each
C11_Witness ==
    /\ prev.done
    /\ it.done
    /\ Len(prev.out) = 2
    /\ Len(out) = 2

\* the adapter was built by create([], [])
EmptyAdapter == dataset.exists /\ created_f = <<>> /\ created_l = <<>>

\* C12: create([], []) succeeds, size() is 0, a traversal yields nothing,
\* and get(0) fails with the index error.
C12_EmptyBoundary ==
    /\ (ret.op = "create" /\ heap[x] = <<>> /\ heap[y] = <<>>) =>
          (ret.kind = "ok" /\ dataset.exists)
    /\ EmptyAdapter =>
          /\ N = 0
          /\ ret.op = "len" => ret.val = 0
          /\ it.active => out = <<>>
          /\ ret.op = "list" => ret.val = <<>>
          /\ ~GetItem(dataset, 0).ok
          /\ (ret.op = "getitem" /\ ret.arg = 0) => ret.kind = "IndexError"

\* C12's case: on the empty adapter a traversal has finished and get(0)
\* has then been called
C12_Witness ==
    /\ EmptyAdapter
    /\ it.done
    /\ ret.op = "getitem"
    /\ ret.arg = 0

\* C13: when a get(i) that the traversal performs on a position inside
\* [0, N) fails, the consumer fails too: it returns no result.
C13_ErrorsPropagate ==
    (it.done /\ it.index < N /\ ret.op \in ConsumerOps) =>
        ret.kind = "IndexError"

\* C17: len, getitem and the traversals have no side effect: the adapter
\* keeps the two list objects it was built with, holding what they held
\* then, and the last len or getitem call, failed ones included, would
\* return the same again.
C17_NoSideEffects ==
    /\ dataset.exists =>
          /\ dataset = NewDataset(RefX, RefY)
          /\ heap[dataset.x] = created_f
          /\ heap[dataset.y] = created_l
    /\ ret.op = "len" => ret.val = DatasetLen(dataset)
    /\ ret.op = "getitem" =>
          LET r == GetItem(dataset, ret.arg)
          IN  /\ ret.kind = (IF r.ok THEN "ok" ELSE "IndexError")
              /\ ret.val = r.val

\* C17's case: a traversal has finished and a get has then failed
C17_Witness ==
    /\ Len(created_f) >= 1
    /\ it.done
    /\ ret.op = "getitem"
    /\ ret.kind = "IndexError"

\* C18: each counting pass builds its table afresh: the pass starts from
\* the empty table, and a second finished pass has the table of the first.
C18_FreshTable ==
    /\ (consumer = "for" /\ it.active /\ it.index = 0) =>
          label_counter = EmptyCounter
    /\ (consumer = "for" /\ it.done /\ prev.kind = "for" /\ prev.done) =>
          label_counter = prev.counter

\* C18's case: two finished counting passes, some label counted twice
C18_Witness ==
    /\ consumer = "for"
    /\ it.done
    /\ prev.kind = "for"
    /\ prev.done
    /\ \E v \in DOMAIN label_counter : label_counter[v] = 2

\* C19: loop invariant of the counting pass: after k pairs the table's keys
\* are the labels among labels[0..k-1], each mapped to its number of
\* occurrences there, which is at least 1.
C19_LoopInvariant ==
    (consumer = "for" /\ it.active) =>
        LET k == it.index
            ls == heap[dataset.y]
        IN  /\ k <= Len(ls)
            /\ DOMAIN label_counter = {ls[i] : i \in 1..k}
            /\ \A v \in DOMAIN label_counter :
                  /\ label_counter[v] = Cardinality({i \in 1..k : ls[i] = v})
                  /\ label_counter[v] >= 1

\* C19's case: the loop is under way, has seen one label twice, and has
\* not finished
C19_Witness ==
    /\ consumer = "for"
    /\ it.active
    /\ ~it.done
    /\ it.index = 2
    /\ \E v \in DOMAIN label_counter : label_counter[v] = 2

\* C20: a finished traversal of an adapter of size N has yielded exactly N
\* pairs, one per position 0..N-1, and stopped at position N.
C20_YieldsNThenEnds ==
    it.done =>
        /\ Len(out) = N
        /\ it.index = N
        /\ \A i \in 1..Len(out) : out[i] = GetItem(dataset, i - 1).val

\* C14: passes run side by side on one adapter each give what they give
\* alone, under every interleaving of their rounds.
C14_PassesIndependent ==
    \A p \in Passes :
        passes[p].done => PassResult(p) = AloneResult(passes[p].kind)

\* C14's case: a counting pass and a listing pass have both finished with
\* two pairs, each having taken a round while the other was under way
C14_Witness ==
    /\ passes[1].kind = "for"
    /\ passes[2].kind = "list"
    /\ \A p \in Passes :
          passes[p].done /\ passes[p].mixed /\ Len(passes[p].out) = 2

\* the split fold is over: every worker is at the end of its range
WorkersDone ==
    \A w \in Workers : workers[w].started /\ workers[w].next = workers[w].hi

FirstPositions(n) == [j \in 1..n |-> j - 1]

\* C21: iterate() is lazy.  While a traversal is under way and its consumer
\* has taken k pairs, the iterator has asked dataset for positions
\* 0..k-1 and for no other: nothing is read before the consumer asks for
\* it, so a consumer that stops there (k < N) leaves positions k.. unread.
C21_Lazy ==
    (it.active /\ ~it.done) => requested = FirstPositions(Len(out))

\* a loop that has taken one pair of a two-pair adapter and not yet asked
\* for the second
C21_Witness ==
    /\ Running("for")
    /\ N = 2
    /\ Len(out) = 1
    /\ Len(out) < Len(TraversalPairs)
    /\ requested = <<0>>

\* C27: a traversal asks for positions 0, 1, 2, ... in that order, each
\* exactly once and never a negative one; every position before the last
\* asked was accepted, and the traversal has ended exactly when the last
\* position asked was rejected, so nothing is asked after it.
C27_RequestOrder ==
    it.active =>
        /\ requested = FirstPositions(Len(requested))
        /\ \A j \in 1..Len(requested) :
              /\ requested[j] >= 0
              /\ j < Len(requested) => GetItem(dataset, requested[j]).ok
        /\ it.done <=>
              /\ requested # <<>>
              /\ ~GetItem(dataset, requested[Len(requested)]).ok
        /\ it.done => Len(requested) = Len(out) + 1

\* a second traversal that has ended after yielding two pairs: it asked
\* for 0, 1 and the rejected 2
C27_Witness ==
    /\ it.done
    /\ ntrav = 2
    /\ requested = <<0, 1, 2>>
    /\ Len(out) = 2

\* --------------------------------------------- size against the traversal
\* C22: size() equals the number of pairs iterate() yields, for every
\* adapter construction accepts: the traversal of the adapter has N pairs,
\* and so has the list every finished list(dataset) returns.
C22_SizeIsPairCount ==
    /\ dataset.exists => Len(TraversalPairs) = N
    /\ (ret.op = "list" /\ it.done /\ consumer = "list") => Len(ret.val) = N

\* the sum of the counts of a table
RECURSIVE TableTotal(_)
TableTotal(c) ==
    IF DOMAIN c = {}
    THEN 0
    ELSE LET k == CHOOSE k \in DOMAIN c : TRUE
         IN  c[k] + TableTotal([j \in DOMAIN c \ {k} |-> c[j]])

\* C23: the counts of the table count_by_label returns sum to size(), for
\* every adapter construction accepts; the table of an adapter of size 0
\* is empty.
C23_CountsSumToSize ==
    (ret.op = "count" /\ it.done /\ consumer = "for") =>
        /\ TableTotal(ret.val) = N
        /\ N = 0 => ret.val = EmptyCounter

\* the pair at position j of the two lists the adapter holds
Aligned(p) ==
    \E j \in 0..(N - 1) :
        /\ j < Len(heap[dataset.x])
        /\ p = <<heap[dataset.x][j + 1], heap[dataset.y][j + 1]>>

\* C24: every pair get(i) returns, for any integer i, and every pair a
\* traversal yields is (features[j], labels[j]) for one position j with
\* 0 <= j < N.
C24_PairsAligned ==
    /\ (ret.op = "getitem" /\ ret.kind = "ok") => Aligned(ret.val)
    /\ it.active => \A k \in 1..Len(out) : Aligned(out[k])

\* ------------------------------------------- the table and the features
\* what MyDataset(f, l)[i] gives for an i >= 0: (f[i], l[i]), IndexError
\* when either list has no position i
PairOf(f, l, i) ==
    LET a == PyIndex(f, i)
        b == PyIndex(l, i)
    IN  IF a.ok /\ b.ok THEN Ok(<<a.val, b.val>>) ELSE IndexError

\* the pairs a traversal of MyDataset(f, l) yields from index i on
RECURSIVE PairsOfFrom(_, _, _)
PairsOfFrom(f, l, i) ==
    LET r == PairOf(f, l, i)
    IN  IF r.ok THEN <<r.val>> \o PairsOfFrom(f, l, i + 1) ELSE <<>>

\* the table the loop cell builds over MyDataset(f, l)
CountWith(f, l) == CountOf(PairsOfFrom(f, l, 0))

\* the features sequences as long as the labels the adapter was built on
OtherFeatures == {f \in SeqsUpTo(Features, MaxLen) : Len(f) = Len(created_l)}

\* C25: the table of count_by_label depends on the labels only.  The table
\* the loop returns on an adapter built on features and labels of one
\* length is the table of the adapter built on the same labels and any
\* other features of that length.
C25_LabelsOnly ==
    (EqualAtCreate /\ ret.op = "count" /\ it.done /\ consumer = "for") =>
        \A f \in OtherFeatures : ret.val = CountWith(f, created_l)

\* a finished loop over a two-pair adapter with both labels, whose table
\* is also that of an adapter with other features
C25_Witness ==
    /\ EqualAtCreate
    /\ ret.op = "count" /\ it.done /\ consumer = "for"
    /\ created_l = <<0, 1>>
    /\ ret.val = CountWith(created_f, created_l)
    /\ \E f \in OtherFeatures : f # created_f /\ ret.val = CountWith(f, created_l)

\* ------------------------------------------------ the caller's sequences
\* C26: create, size, get, iterate and the three consumers never modify
\* the caller's two sequences: x and y still name the lists they named,
\* with the elements, in the order, they had when create was called.
C26_CallerSequencesKept ==
    /\ x = RefX /\ y = RefY
    /\ dataset.exists => (heap[x] = created_f /\ heap[y] = created_l)

\* every kind of operation has run on a non-empty adapter: a get, and two
\* finished traversals
C26_Witness ==
    /\ dataset.exists
    /\ created_f # <<>> /\ created_l # <<>>
    /\ ntrav = 2 /\ it.done /\ prev.done
    /\ ret.op \in ConsumerOps
    /\ heap[x] = created_f /\ heap[y] = created_l
====
